---- MODULE Spec2Model ----
(***************************************************************************)
(* embedded-graphics-colorcast: the Image adapter of src/lib.rs.           *)
(*                                                                         *)
(* An Image borrows a binary-colour view, holds a position and a fill      *)
(* colour, and draws every "on" pixel of the view in that colour.          *)
(*                                                                         *)
(* Coordinates are i32 in the program.  The model keeps a two's-complement *)
(* integer of Bits bits; `+` and `-` on it behave as Rust's do: with       *)
(* overflow checks (debug profile) an overflow panics, without them        *)
(* (release profile) the result wraps.  Both builds are modelled.          *)
(***************************************************************************)
EXTENDS Integers, Sequences, FiniteSets

VARIABLES
    view,       \* the borrowed T: OriginDimensions + GetPixel<Color = BinaryColor>
    img,        \* the Image { image, position, color }
    ret,        \* the last call: its name, its arguments and what it returned
    panicked,   \* the last call panicked (the program has stopped)
    ctor,       \* the arguments the image was constructed with
    applied,    \* the deltas applied to img since construction, summed in Int
    moves       \* how many translations img went through since construction

vars == <<view, img, ret, panicked, ctor, applied, moves>>

(***************************************************************************)
(* Bounds of the model.                                                    *)
(***************************************************************************)
Bits == 4
MaxPixels == 4
MaxMoves == 2
MaxWidth == 3

Modulus == 2 ^ Bits
MaxInt == 2 ^ (Bits - 1) - 1
MinInt == -(2 ^ (Bits - 1))

(***************************************************************************)
(* i32 arithmetic.                                                         *)
(***************************************************************************)
InRange(n) == MinInt <= n /\ n <= MaxInt

Wrap(n) == ((n - MinInt) % Modulus) + MinInt

Point(px, py) == [x |-> px, y |-> py]

PointZero == Point(0, 0)

Size(w, h) == [width |-> w, height |-> h]

\* impl Add for Point: Point::new(self.x + other.x, self.y + other.y)
PointAdd(a, b) == Point(Wrap(a.x + b.x), Wrap(a.y + b.y))

PointAddOverflows(a, b) == ~InRange(a.x + b.x) \/ ~InRange(a.y + b.y)

\* impl Sub<Size> for Point: Point::new(self.x - width as i32, self.y - height as i32)
PointSubSize(a, s) == Point(Wrap(a.x - s.width), Wrap(a.y - s.height))

PointSubSizeOverflows(a, s) == ~InRange(a.x - s.width) \/ ~InRange(a.y - s.height)

(***************************************************************************)
(* Rectangle, as the geometry library defines it.                          *)
(***************************************************************************)
Rectangle(tl, sz) == [top_left |-> tl, size |-> sz]

\* Size::saturating_sub(1) / 2 on both axes: the offset of the centre pixel
CenterOffset(sz) ==
    Size((IF sz.width = 0 THEN 0 ELSE sz.width - 1) \div 2,
         (IF sz.height = 0 THEN 0 ELSE sz.height - 1) \div 2)

\* Rectangle::with_center(center, size)
RectangleWithCenter(center, sz) ==
    Rectangle(PointSubSize(center, CenterOffset(sz)), sz)

\* Rectangle::translate(by)
RectangleTranslate(r, by) == Rectangle(PointAdd(r.top_left, by), r.size)

\* Points with the loops swapped: column by column
PointsColumnMajor(r) ==
    [i \in 1..(r.size.width * r.size.height) |->
        Point(r.top_left.x + ((i - 1) \div r.size.height),
              r.top_left.y + ((i - 1) % r.size.height))]

\* Rectangle::points(): row by row from the top, left to right within a row
Points(r) ==
    [i \in 1..(r.size.width * r.size.height) |->
        Point(r.top_left.x + ((i - 1) % r.size.width),
              r.top_left.y + ((i - 1) \div r.size.width))]

(***************************************************************************)
(* The view.                                                               *)
(***************************************************************************)
Option == {"On", "Off", "None"}

Coords(w, h) == {Point(px, py) : px \in 0..(w - 1), py \in 0..(h - 1)}

Shapes ==
    {s \in [width : 0..MaxPixels, height : 0..MaxPixels] :
        s.width * s.height <= MaxPixels}

Views ==
    UNION {[size : {s}, pixels : [Coords(s.width, s.height) -> Option]] :
            s \in Shapes}

\* GetPixel::pixel(p): Some(On), Some(Off) or None
GetPixel(v, p) == IF p \in DOMAIN v.pixels THEN v.pixels[p] ELSE "None"

\* OriginDimensions: bounding_box() is Rectangle::new(Point::zero(), self.size())
ViewBoundingBox(v) == Rectangle(PointZero, v.size)

\* bytes_per_row for one bit per pixel
BytesPerRow(width) == (width + 7) \div 8

\* bit k of a byte, bit 7 the most significant
Bit(byte, k) == (byte \div (2 ^ k)) % 2

\* ImageRaw::<BinaryColor>::new(data, width): rows of BytesPerRow(width) bytes,
\* the most significant bit of a byte is its leftmost pixel
ImageRaw(data, width) ==
    IF width = 0
    THEN [size |-> Size(0, 0), pixels |-> [p \in Coords(0, 0) |-> "Off"]]
    ELSE LET height == Len(data) \div BytesPerRow(width)
         IN  [size |-> Size(width, height),
              pixels |->
                [p \in Coords(width, height) |->
                    IF Bit(data[p.y * BytesPerRow(width) + (p.x \div 8) + 1],
                           7 - (p.x % 8)) = 1
                    THEN "On" ELSE "Off"]]

\* the data and the width of the view the tests construct: 0b10101010,
\* 0b01010101 at width 8; the model also takes the prefixes of that data and
\* the narrow widths up to MaxWidth
TestData == <<170, 85>>

TestWidth == 8

DataInputs == {SubSeq(TestData, 1, n) : n \in 0..Len(TestData)}

WidthInputs == (0..MaxWidth) \cup {TestWidth}

ImageRawViews == {ImageRaw(data, width) : data \in DataInputs, width \in WidthInputs}

ViewRef == "image"

\* two colours of the target; BLACK is what the second test passes (BinaryColor::Off)
Colors == {"WHITE", "BLACK"}

Errors == {"E1", "E2"}

\* positions and centres the callers pass: the origin, one off the surface,
\* and the two corners of the i32 range where arithmetic overflows
PositionInputs ==
    {PointZero, Point(-1, 2), Point(MinInt, MaxInt), Point(MaxInt, MinInt)}

DeltaInputs == {Point(1, 1), Point(0, -1)}

NoImage == [image |-> "none", position |-> PointZero, color |-> "none"]

NotConstructed ==
    /\ img = NoImage
    /\ ret = [op |-> "init"]
    /\ panicked = FALSE
    /\ ctor = NoImage
    /\ applied = PointZero
    /\ moves = 0

\* the views of the tests: ImageRaw over a few bytes
Init == view \in ImageRawViews /\ NotConstructed

\* any view: every size and every answer of the pixel lookup
InitAnyView == view \in Views /\ NotConstructed

(***************************************************************************)
(* Image: the functions of src/lib.rs, as values.                          *)
(***************************************************************************)
\* Image::new: the three fields verbatim
ImageNew(image, position, color) ==
    [image |-> image, position |-> position, color |-> color]

\* with_center that stores the centre itself
ImageWithCenterAtCenter(image, center, color) ==
    [image |-> image, position |-> center, color |-> color]

\* Image::with_center: the top-left of Rectangle::with_center(center, image.size())
ImageWithCenter(image, center, color) ==
    [image |-> image,
     position |-> RectangleWithCenter(center, view.size).top_left,
     color |-> color]

\* translate that forgets the receiver's position
ImageTranslateFromOrigin(self, by) ==
    [image |-> self.image, position |-> by, color |-> self.color]

\* Transform::translate: a new image, position + by
ImageTranslate(self, by) ==
    [image |-> self.image,
     position |-> PointAdd(self.position, by),
     color |-> self.color]

\* translate_mut that adds only x
ImageTranslateMutXOnly(self, by) ==
    [self EXCEPT !.position.x = Wrap(self.position.x + by.x)]

\* translate_mut that also resets the colour
ImageTranslateMutRecolor(self, by) ==
    [self EXCEPT !.position = PointAdd(self.position, by), !.color = "WHITE"]

\* Transform::translate_mut: self.position += by
ImageTranslateMut(self, by) ==
    [self EXCEPT !.position = PointAdd(self.position, by)]

\* impl AddAssign for Point adds x, then y: when only y overflows under
\* overflow checks, x is already written as the panic starts
ImageTranslateMutUnwound(self, by) ==
    IF InRange(self.position.x + by.x)
    THEN [self EXCEPT !.position.x = self.position.x + by.x]
    ELSE self

\* bounding_box that forgets to translate
ImageBoundingBoxUntranslated(self) == ViewBoundingBox(view)

\* Dimensions::bounding_box: self.image.bounding_box().translate(self.position)
ImageBoundingBox(self) ==
    RectangleTranslate(ViewBoundingBox(view), self.position)

\* the filter as `!= Some(Off)`: an out-of-range lookup counts as on
OnPointsNotOff(self) ==
    SelectSeq(Points(ViewBoundingBox(view)),
              LAMBDA point : GetPixel(view, point) # "Off")

\* the filter as `== Some(Off)`: the bitmap inverted
OnPointsOff(self) ==
    SelectSeq(Points(ViewBoundingBox(view)),
              LAMBDA point : GetPixel(view, point) = "Off")

\* the points of the view's own bounding box whose pixel is Some(On)
OnPoints(self) ==
    SelectSeq(Points(ViewBoundingBox(view)),
              LAMBDA point : GetPixel(view, point) = "On")

\* Pixel(self.position + point, self.color)
Pixel(self, point) ==
    [point |-> PointAdd(self.position, point), color |-> self.color]

\* the lazy sequence draw hands to target.draw_iter
DrawPixels(self) ==
    LET on == OnPoints(self)
    IN  [i \in 1..Len(on) |-> Pixel(self, on[i])]

\* the indices of the sequence whose position + point overflows
DrawOverflows(self) ==
    LET on == OnPoints(self)
    IN  {i \in 1..Len(on) : PointAddOverflows(self.position, on[i])}

\* DrawTarget::draw_iter: the sink pulls `take` pixels and reports `outcome`
DrawIter(pixels, take, outcome) ==
    [display |-> SubSeq(pixels, 1, take), result |-> outcome, calls |-> 1]

\* draw that tries once more when the sink fails, and reports success
ImageDrawRetry(self, take, outcome) ==
    IF outcome = "Ok"
    THEN DrawIter(DrawPixels(self), take, outcome)
    ELSE [display |-> SubSeq(DrawPixels(self), 1, take) \o DrawPixels(self),
          result |-> "Ok", calls |-> 2]

\* Drawable::draw: one draw_iter call, its result returned as it is
ImageDraw(self, take, outcome) ==
    DrawIter(DrawPixels(self), take, outcome)

(***************************************************************************)
(* The calls.  Where a call's arithmetic can overflow, its first disjunct  *)
(* is the build with overflow checks (the call panics and the program      *)
(* stops) and its second the call returning: without overflow, or wrapped  *)
(* in the build without overflow checks.                                   *)
(***************************************************************************)
Constructed == ret.op # "init"

New(position, color) ==
    /\ ~panicked
    /\ ~Constructed
    /\ img' = ImageNew(ViewRef, position, color)
    /\ ctor' = img'
    /\ ret' = [op |-> "new"]
    /\ UNCHANGED <<view, panicked, applied, moves>>

WithCenter(center, color) ==
    /\ ~panicked
    /\ ~Constructed
    /\ \/ /\ PointSubSizeOverflows(center, CenterOffset(view.size))
          /\ panicked' = TRUE
          /\ ret' = [op |-> "with_center", center |-> center]
          /\ UNCHANGED <<view, img, ctor, applied, moves>>
       \/ /\ img' = ImageWithCenter(ViewRef, center, color)
          /\ ctor' = img'
          /\ ret' = [op |-> "with_center", center |-> center]
          /\ UNCHANGED <<view, panicked, applied, moves>>

BoundingBox ==
    /\ ~panicked
    /\ Constructed
    /\ ret' = [op |-> "bounding_box", value |-> ImageBoundingBox(img)]
    /\ UNCHANGED <<view, img, panicked, ctor, applied, moves>>

Translate(by) ==
    /\ ~panicked
    /\ Constructed
    /\ moves < MaxMoves
    /\ \/ /\ PointAddOverflows(img.position, by)
          /\ panicked' = TRUE
          /\ ret' = [op |-> "translate", by |-> by, before |-> img]
          /\ UNCHANGED <<view, img, ctor, applied, moves>>
       \/ /\ ret' = [op |-> "translate", by |-> by, before |-> img,
                     value |-> ImageTranslate(img, by)]
          /\ UNCHANGED <<view, img, panicked, ctor, applied, moves>>

\* let image = image.translate(by): the caller goes on with the returned image
Rebind ==
    /\ ~panicked
    /\ ret.op = "translate"
    /\ img' = ret.value
    /\ applied' = Point(applied.x + ret.by.x, applied.y + ret.by.y)
    /\ moves' = moves + 1
    /\ ret' = [op |-> "rebind"]
    /\ UNCHANGED <<view, panicked, ctor>>

TranslateMut(by) ==
    /\ ~panicked
    /\ Constructed
    /\ moves < MaxMoves
    /\ \/ /\ PointAddOverflows(img.position, by)
          /\ panicked' = TRUE
          /\ img' = ImageTranslateMutUnwound(img, by)
          /\ ret' = [op |-> "translate_mut", by |-> by, before |-> img]
          /\ UNCHANGED <<view, ctor, applied, moves>>
       \/ /\ img' = ImageTranslateMut(img, by)
          /\ applied' = Point(applied.x + by.x, applied.y + by.y)
          /\ moves' = moves + 1
          /\ ret' = [op |-> "translate_mut", by |-> by, before |-> img]
          /\ UNCHANGED <<view, panicked, ctor>>

\* the sink either consumes the whole sequence and reports Ok, or stops after
\* `take` pixels with an error of its own
Draw(take, outcome) ==
    /\ ~panicked
    /\ Constructed
    /\ outcome = "Ok" => take = Len(OnPoints(img))
    /\ \/ /\ \E i \in DrawOverflows(img) : i <= take
          /\ panicked' = TRUE
          /\ ret' = [op |-> "draw", take |-> take, reported |-> outcome]
          /\ UNCHANGED <<view, img, ctor, applied, moves>>
       \/ /\ LET drawn == ImageDraw(img, take, outcome)
             IN  ret' = [op |-> "draw", take |-> take, reported |-> outcome,
                         result |-> drawn.result,
                         pixels |-> drawn.display,
                         calls |-> drawn.calls]
          /\ UNCHANGED <<view, img, panicked, ctor, applied, moves>>

Construct ==
    \/ \E position \in PositionInputs, color \in Colors : New(position, color)
    \/ \E center \in PositionInputs, color \in Colors : WithCenter(center, color)

Drawing ==
    \E take \in 0..Len(OnPoints(img)), outcome \in {"Ok"} \cup Errors :
        Draw(take, outcome)

Next ==
    \/ Construct
    \/ BoundingBox
    \/ \E by \in DeltaInputs : Translate(by)
    \/ Rebind
    \/ \E by \in DeltaInputs : TranslateMut(by)
    \/ Drawing

NextDraw ==
    \/ Construct
    \/ Drawing

Spec == Init /\ [][Next]_vars

SpecDraw == InitAnyView /\ [][NextDraw]_vars

(***************************************************************************)
(* Properties.                                                             *)
(***************************************************************************)
Returned(op) == ret.op = op /\ ~panicked

\* the local coordinates of the view's bounding box
LocalCoords == Coords(view.size.width, view.size.height)

\* P + L in the position type
Plus(a, b) == Point(Wrap(a.x + b.x), Wrap(a.y + b.y))

\* the local coordinate an emitted pixel came from
Local(pixel) ==
    Point(Wrap(pixel.point.x - img.position.x), Wrap(pixel.point.y - img.position.y))

Handed == {ret.pixels[i] : i \in 1..Len(ret.pixels)}

\* C1 (pixel fidelity): after a draw whose sink consumed the whole sequence,
\* for every local coordinate L of the view's bounding box the pixel
\* (position + L, color) was handed to the sink if and only if the lookup at
\* L is "on"; "off" and "out of range" emit nothing; and whatever prefix the
\* sink consumed holds only such pixels, each once.
C1_PixelFidelity ==
    Returned("draw") =>
        /\ ret.result = "Ok" =>
            \A L \in LocalCoords :
                ([point |-> Plus(img.position, L), color |-> img.color] \in Handed)
                    <=> (GetPixel(view, L) = "On")
        /\ \A i \in 1..Len(ret.pixels) :
            \E L \in LocalCoords :
                /\ GetPixel(view, L) = "On"
                /\ ret.pixels[i] = [point |-> Plus(img.position, L), color |-> img.color]
        /\ \A i, j \in 1..Len(ret.pixels) : i # j => ret.pixels[i] # ret.pixels[j]

\* C1 witness: a complete draw away from the origin of a view that answers
\* on, off and out of range
C1_Witness ==
    /\ Returned("draw")
    /\ ret.result = "Ok"
    /\ Len(ret.pixels) >= 2
    /\ img.position # PointZero
    /\ \E L \in LocalCoords : GetPixel(view, L) = "Off"
    /\ \E L \in LocalCoords : GetPixel(view, L) = "None"

\* C2 (emission order): of any two pixels handed to the sink, the earlier one
\* has the smaller row, or the same row and the smaller column, in local
\* coordinates.
C2_RowMajorOrder ==
    Returned("draw") =>
        \A i, j \in 1..Len(ret.pixels) :
            i < j =>
                \/ Local(ret.pixels[i]).y < Local(ret.pixels[j]).y
                \/ /\ Local(ret.pixels[i]).y = Local(ret.pixels[j]).y
                   /\ Local(ret.pixels[i]).x < Local(ret.pixels[j]).x

\* C2 witness: a draw of a view two wide and two high that emitted pixels of
\* both rows and both columns
C2_Witness ==
    /\ Returned("draw")
    /\ view.size = Size(2, 2)
    /\ Len(ret.pixels) >= 3
    /\ GetPixel(view, Point(0, 0)) # "On"

\* C3 (sink failure): draw calls the sink once, hands it no pixel beyond the
\* prefix the sink consumed, and returns what the sink reported: its failure
\* if it failed, success if it succeeded, also for an empty sequence.
C3_SinkResultPropagated ==
    Returned("draw") =>
        /\ ret.result = ret.reported
        /\ ret.calls = 1
        /\ Len(ret.pixels) = ret.take

\* C3 witness: the sink failed after consuming a proper, non-empty prefix
C3_Witness ==
    /\ Returned("draw")
    /\ ret.reported \in Errors
    /\ ret.take >= 1
    /\ ret.take < Cardinality({L \in LocalCoords : GetPixel(view, L) = "On"})

\* C4 (bounding box): bounding_box() is the rectangle of the view's size whose
\* top-left is the image's position, whatever the pixels are.
C4_BoundingBoxTranslated ==
    Returned("bounding_box") =>
        /\ ret.value.top_left = img.position
        /\ ret.value.size = view.size

\* C4 witness: the bounding box of a translated image of a view with pixels
C4_Witness ==
    /\ Returned("bounding_box")
    /\ img.position # PointZero
    /\ moves > 0
    /\ view.size.width * view.size.height > 0

\* C4 witness of the degenerate case: a zero-size view away from the origin
C4_ZeroSizeReached ==
    /\ Returned("bounding_box")
    /\ img.position # PointZero
    /\ view.size.width * view.size.height = 0

\* the offset from the top-left corner to the centre along one axis
HalfBelow(length) == IF length = 0 THEN 0 ELSE (length - 1) \div 2

\* C5 as amended (centering): with_center(V, center, C).bounding_box() is the
\* rectangle of size V.size() centred on center by the geometry library; the
\* stored position is its top-left corner; along each axis the centre lies
\* (length - 1) div 2 after the top-left, so for an even length the centre is
\* the lower of the two middle coordinates and the rectangle reaches one
\* further toward the higher-valued side.
C5_Centered ==
    Returned("with_center") =>
        /\ ImageBoundingBox(img) = RectangleWithCenter(ret.center, view.size)
        /\ img.position = ImageBoundingBox(img).top_left
        /\ Wrap(img.position.x + HalfBelow(view.size.width)) = ret.center.x
        /\ Wrap(img.position.y + HalfBelow(view.size.height)) = ret.center.y
        /\ (view.size.width > 0 /\ view.size.width % 2 = 0) =>
              Wrap(img.position.x + view.size.width - 1 - ret.center.x)
                  = Wrap(ret.center.x - img.position.x) + 1

\* C5 witness: with_center of a view of even width and odd height
C5_Witness ==
    /\ Returned("with_center")
    /\ view.size.width = 2
    /\ view.size.height = 1
    /\ ret.center = PointZero

\* C5 as claimed: for an even width the rectangle is biased toward the
\* lower-valued side, that is, it reaches at least as far below the centre as
\* above it.
C5_BiasedLow ==
    (Returned("with_center") /\ view.size.width > 0) =>
        /\ ImageBoundingBox(img) = RectangleWithCenter(ret.center, view.size)
        /\ Wrap(ret.center.x - img.position.x)
              >= Wrap(img.position.x + view.size.width - 1 - ret.center.x)

\* C6 (translate and translate_mut): translate leaves the receiver as it was
\* and returns an image at position + delta; translate_mut leaves the receiver
\* at position + delta; from equal images both give the same position.
C6_TranslateEquivalence ==
    /\ Returned("translate") =>
        /\ img = ret.before
        /\ ret.value.position = Plus(ret.before.position, ret.by)
        /\ ret.value.position = ImageTranslateMut(ret.before, ret.by).position
    /\ Returned("translate_mut") =>
        /\ img.position = Plus(ret.before.position, ret.by)
        /\ img.position = ImageTranslate(ret.before, ret.by).position

\* C6 witness: translate_mut returned, moving an image in x and y
C6_Witness ==
    /\ Returned("translate_mut")
    /\ ret.by = Point(1, 1)
    /\ ret.before.position # PointZero

\* C7 (composition): after any sequence of translations the bounding box's
\* top-left is the position the image was constructed at plus the sum of the
\* deltas applied; so it is for the image translate returns, the last delta
\* included.
C7_TranslateComposition ==
    /\ Returned("bounding_box") =>
        ret.value.top_left = Plus(ctor.position, applied)
    /\ Returned("translate") =>
        ImageBoundingBox(ret.value).top_left
            = Plus(ctor.position, Point(applied.x + ret.by.x, applied.y + ret.by.y))

\* C7 witness: translate(B) returned on an image that was translated by A
C7_Witness ==
    /\ Returned("translate")
    /\ moves = 1
    /\ applied # PointZero
    /\ applied # ret.by

\* C8 (totality): new, with_center, bounding_box, translate and translate_mut
\* never panic.
C8_NeverPanics ==
    ~(panicked /\ ret.op \in {"new", "with_center", "bounding_box",
                              "translate", "translate_mut"})

\* the scenario of the second test: new at the origin, fill colour black
Scenario ==
    /\ view = ImageRaw(TestData, TestWidth)
    /\ img = ImageNew(ViewRef, PointZero, "BLACK")
    /\ Returned("draw")
    /\ ret.result = "Ok"

\* the pixels handed to the sink in row y, by their x
RowXs(y) == {pixel.point.x : pixel \in {q \in Handed : q.point.y = y}}

\* C9 as amended (width-8 scenario): for the first byte, 0b10101010, draw
\* emits exactly the pixels at x = 0, 2, 4, 6, each as (x, 0) in black, and
\* nothing at x = 1, 3, 5, 7.
C9_FirstByteEvenColumns ==
    Scenario =>
        /\ RowXs(0) = {0, 2, 4, 6}
        /\ \A pixel \in Handed : pixel.color = "BLACK"

\* C9 witness: the scenario drawn completely
C9_Witness == Scenario /\ Len(ret.pixels) = 8

\* C9 as claimed: for the first byte draw emits exactly x = 1, 3, 5, 7.
C9_FirstByteOddColumns ==
    Scenario =>
        /\ RowXs(0) = {1, 3, 5, 7}
        /\ \A pixel \in Handed : pixel.color = "BLACK"

\* C10 (frame): no call changes the view; the image holds the view reference
\* and the colour it was constructed with after every call; the position
\* changes only in translate_mut or when the caller takes the image translate
\* returned, so draw and bounding_box leave it alone; and the image translate
\* returns has the receiver's view reference and colour.
C10_Frame ==
    [][/\ view' = view
       /\ Constructed' =>
            /\ img'.image = ctor'.image
            /\ img'.color = ctor'.color
       /\ Constructed =>
            /\ ctor' = ctor
            /\ img'.image = img.image
            /\ img'.color = img.color
            /\ img'.position # img.position => ret'.op \in {"translate_mut", "rebind"}
       /\ (ret'.op = "translate" /\ ~panicked') =>
            /\ ret'.value.image = img.image
            /\ ret'.value.color = img.color]_vars

\* C10 witness: an image that was moved and then drawn
C10_Witness ==
    /\ Returned("draw")
    /\ moves = MaxMoves
    /\ img.position # ctor.position
    /\ img.color = "BLACK"

====
